---- MODULE Spec2Model ----
(***************************************************************************)
(* Model of the scrobbler command line tool (src/src/index.ts).            *)
(*                                                                         *)
(* Main prompts for artist, album and repeat count, resolves the album to  *)
(* a tracklist with Fetch (four encodings of the album title, tried in     *)
(* order), then runs the submission loop: Scrobble is called until Attempt *)
(* reaches Repeat or the 24h limit is hit.  The program is one async       *)
(* function; the actions below are its steps between suspension points.    *)
(*                                                                         *)
(* Strings are sequences of tokens; String.prototype.includes is a         *)
(* contiguous sub-sequence test.  An optional JSON member is a sequence of *)
(* length 0 (absent) or 1 (present).                                       *)
(***************************************************************************)
EXTENDS Integers, Sequences, FiniteSets, TLC

\* ---------------------------------------------------------------- bounds
\* Largest repeat count the user enters.
MaxRepeat == 2

\* Counters of events that the program itself does not bound (submission
\* calls, error lines, validation re-prompts) saturate at these values.
MaxCalls == MaxRepeat + 2

MaxErrors == MaxRepeat + 2

MaxReprompts == 1

\* ------------------------------------------------------- generic helpers
None == <<>>

Some(x) == <<x>>

Inc(n, cap) == IF n < cap THEN n + 1 ELSE n

\* String.prototype.includes on token sequences.
Includes(Str, Pat) ==
  \E i \in 0..(Len(Str) - Len(Pat)) :
    \A j \in 1..Len(Pat) : Str[i + j] = Pat[j]

\* The pending calls after the oldest call of Kind has completed.
RECURSIVE Complete(_, _)
Complete(Pending, Kind) ==
  IF Pending = <<>> THEN <<>>
  ELSE IF Head(Pending) = Kind THEN Tail(Pending)
  ELSE <<Head(Pending)>> \o Complete(Tail(Pending), Kind)

RECURSIVE Concat(_)
Concat(Ss) == IF Ss = <<>> THEN <<>> ELSE Head(Ss) \o Concat(Tail(Ss))

\* --------------------------------------------------------- Text handling
\* Characters of an album title:  "a" an unreserved ASCII letter, "/" a
\* reserved URI character, "BEL" an ASCII control character, "e" followed
\* by "acute" (U+0301) the decomposed form of "eacute" (U+00E9), "fi_lig"
\* (U+FB01) the ligature with compatibility decomposition "f" "i", and
\* "SUR" a lone surrogate code unit.
ControlChars == {"BEL"}

\* Clean, index.ts:59-61.
RECURSIVE Clean(_)
Clean(Title) ==
  IF Title = <<>> THEN <<>>
  ELSE IF Head(Title) \in ControlChars THEN Clean(Tail(Title))
       ELSE <<Head(Title)>> \o Clean(Tail(Title))

\* String.prototype.normalize('NFC'): canonical composition.
RECURSIVE NFC(_)
NFC(S) ==
  IF Len(S) >= 2 /\ S[1] = "e" /\ S[2] = "acute"
    THEN <<"eacute">> \o NFC(SubSeq(S, 3, Len(S)))
  ELSE IF S = <<>> THEN <<>>
  ELSE <<Head(S)>> \o NFC(Tail(S))

\* Compatibility decomposition, the first half of normalize('NFKC').
RECURSIVE CompatDecompose(_)
CompatDecompose(S) ==
  IF S = <<>> THEN <<>>
  ELSE (IF Head(S) = "fi_lig" THEN <<"f", "i">> ELSE <<Head(S)>>)
         \o CompatDecompose(Tail(S))

NFKC(S) == NFC(CompatDecompose(S))

\* Percent-encoding of one character by encodeURIComponent.
ComponentEncodeChar(c) ==
  CASE c = "/"      -> <<"%2F">>
    [] c = "eacute" -> <<"%C3%A9">>
    [] c = "acute"  -> <<"%CC%81">>
    [] c = "fi_lig" -> <<"%EF%AC%81">>
    [] c = "BEL"    -> <<"%07">>
    [] OTHER        -> <<c>>

\* Percent-encoding of one character by encodeURI: reserved characters stay.
UriEncodeChar(c) == IF c = "/" THEN <<"/">> ELSE ComponentEncodeChar(c)

\* encodeURIComponent and encodeURI throw URIError on a lone surrogate.
Malformed(S) == \E i \in 1..Len(S) : S[i] = "SUR"

encodeURIComponent(S) == Concat([i \in 1..Len(S) |-> ComponentEncodeChar(S[i])])

encodeURI(S) == Concat([i \in 1..Len(S) |-> UriEncodeChar(S[i])])

\* The candidate list of Fetch, index.ts:64-70.
Variants(AlbumTitle) ==
  LET CleanAlbum == Clean(AlbumTitle)
  IN  << encodeURIComponent(CleanAlbum),
         encodeURIComponent(NFC(CleanAlbum)),
         encodeURIComponent(NFKC(CleanAlbum)),
         encodeURI(CleanAlbum) >>

\* ------------------------------------------------------------ user input
ArtistInputs == {"", "A"}

AlbumInputs ==
  { <<>>, <<"a">>, <<"BEL", "e", "acute">>, <<"fi_lig", "/">>, <<"SUR">> }

RepeatInputs == (-1)..MaxRepeat

\* A validate callback that only rejects zero.
Validate_NonZero(Value) == Value # 0

\* The validate callback of the number prompt, index.ts:144.
Validate(Value) == Value > 0

\* ------------------------------------------------------ catalog responses
\* A catalog exchange: the request fails (net = "error"), or a response
\* with a status arrives whose body is undecodable (json = "bad") or
\* decodes to a body with Data.album?.tracks?.track absent, an object or
\* an array.
CatalogResponse(net, status, json, kind, items) ==
  [net |-> net, status |-> status, json |-> json, kind |-> kind, items |-> items]

CatalogResponses ==
  { CatalogResponse("error", 0, "bad", "absent", <<>>),
    CatalogResponse("ok", 404, "ok", "absent", <<>>),
    CatalogResponse("ok", 200, "bad", "absent", <<>>),
    CatalogResponse("ok", 200, "ok", "absent", <<>>),
    CatalogResponse("ok", 200, "ok", "object", <<"t1">>),
    CatalogResponse("ok", 200, "ok", "array", <<>>),
    CatalogResponse("ok", 200, "ok", "array", <<"t1", "t2">>) }

\* Response.ok
Ok(R) == R.net = "ok" /\ R.status \in 200..299

\* JavaScript truthiness of Data.album?.tracks?.track: undefined is falsy,
\* an object and an array (the empty array too) are truthy.
Truthy(R) == R.kind \in {"object", "array"}

\* index.ts:77-84: the candidate is taken when the response is ok, its body
\* decodes and the track member is truthy.
FetchAccepts(R) == Ok(R) /\ R.json = "ok" /\ Truthy(R)

\* index.ts:83: Array.isArray(Track) ? Track : [Track]
Normalize(R) == IF R.kind = "array" THEN R.items ELSE <<R.items[1]>>

\* --------------------------------------------------- submission responses
\* parseInt(String, 10) on a sequence of characters: leading blanks and a
\* sign are skipped, the longest digit prefix is the value, and the result
\* is NaN (None here) when there is no digit.
Digits == {"0", "1", "2"}

DigitVal(c) == CASE c = "0" -> 0 [] c = "1" -> 1 [] c = "2" -> 2

RECURSIVE SkipBlanks(_)
SkipBlanks(S) ==
  IF S # <<>> /\ Head(S) = " " THEN SkipBlanks(Tail(S)) ELSE S

RECURSIVE DigitPrefix(_)
DigitPrefix(S) ==
  IF S # <<>> /\ Head(S) \in Digits
    THEN <<Head(S)>> \o DigitPrefix(Tail(S))
    ELSE <<>>

RECURSIVE DigitsValue(_, _)
DigitsValue(D, Acc) ==
  IF D = <<>> THEN Acc ELSE DigitsValue(Tail(D), 10 * Acc + DigitVal(Head(D)))

parseInt(S) ==
  LET T == SkipBlanks(S)
      Signed == T # <<>> /\ Head(T) \in {"-", "+"}
      U == IF Signed THEN Tail(T) ELSE T
      D == DigitPrefix(U)
      V == DigitsValue(D, 0)
  IN  IF D = <<>> THEN None
      ELSE IF Signed /\ Head(T) = "-" THEN Some(0 - V) ELSE Some(V)

\* A decoded response body (ScrobbleResponse, index.ts:37-45); every member
\* is optional.
Body(scrobbles, error, message) ==
  [scrobbles |-> scrobbles, error |-> error, message |-> message]

Scrobbles(accepted) == Some([attr |-> Some([accepted |-> Some(accepted)])])

ScrobblesNoAttr == Some([attr |-> None])

EmptyBody == Body(None, None, None)

RateLimitMessage == <<"Rate Limit Exceeded", " - Your IP has made too many requests">>

OtherMessage == <<"Invalid session key">>

\* A submission exchange: UndiciFetch rejects with an error whose message
\* is errmsg (net = "error"), or a response arrives with status and
\* statusText whose body either fails to decode (json = "bad", the
\* SyntaxError carrying errmsg) or decodes to body.
SubmitResponse(net, errmsg, status, statusText, json, body) ==
  [net |-> net, errmsg |-> errmsg, status |-> status,
   statusText |-> statusText, json |-> json, body |-> body]

NetError(msg) == SubmitResponse("error", msg, 0, <<>>, "bad", EmptyBody)

Http(status, statusText, body) ==
  SubmitResponse("ok", <<>>, status, statusText, "ok", body)

Undecodable(msg) == SubmitResponse("ok", msg, 200, <<"OK">>, "bad", EmptyBody)

SubmitResponses ==
  { NetError(<<"fetch failed">>),
    NetError(<<"connect ETIMEDOUT 10.0.0.1:", "429", "0">>),
    Http(429, <<"Too Many Requests">>, EmptyBody),
    Http(429, <<"Too Many Requests">>, Body(None, Some(29), Some(RateLimitMessage))),
    Http(500, <<"Internal Server Error">>, EmptyBody),
    Http(503, <<"upstream returned ", "429">>, EmptyBody),
    Undecodable(<<"Unexpected token '<'">>),
    Http(200, <<"OK">>, Body(Scrobbles(<<"1">>), None, None)),
    Http(200, <<"OK">>, Body(Scrobbles(<<"0">>), None, None)),
    Http(200, <<"OK">>, Body(Scrobbles(<<"-", "1">>), None, None)),
    Http(200, <<"OK">>, Body(Scrobbles(<<"a">>), None, None)),
    Http(200, <<"OK">>, EmptyBody),
    Http(200, <<"OK">>, Body(ScrobblesNoAttr, None, None)),
    Http(200, <<"OK">>, Body(None, Some(29), Some(RateLimitMessage))),
    Http(200, <<"OK">>, Body(None, Some(29), Some(OtherMessage))),
    Http(200, <<"OK">>, Body(None, Some(29), None)),
    Http(200, <<"OK">>, Body(None, Some(6), Some(RateLimitMessage))),
    Http(200, <<"OK">>, Body(Scrobbles(<<"1">>), Some(29), Some(RateLimitMessage))) }

LimitHitMessage == <<"Scrobbling limit hit", " (", "24h cooldown", ")">>

\* A test that looks at the error code only.
IsDailyLimitBody_CodeOnly(B) == B.error = Some(29)

\* index.ts:124: Json.error === 29 && Json.message?.includes('Rate Limit Exceeded')
IsDailyLimitBody(B) ==
  /\ B.error = Some(29)
  /\ B.message # None
  /\ Includes(B.message[1], <<"Rate Limit Exceeded">>)

\* The error Scrobble rejects with, index.ts:112-126; None when it returns
\* the decoded body.
ScrobbleThrows(R) ==
  IF R.net = "error" THEN Some(R.errmsg)
  ELSE IF ~Ok(R)
    THEN Some(<<"Scrobble request failed: ", ToString(R.status), " ">> \o R.statusText)
  ELSE IF R.json = "bad" THEN Some(R.errmsg)
  ELSE IF IsDailyLimitBody(R.body) THEN Some(LimitHitMessage)
  ELSE None

\* The error thrown inside the try block of the loop, index.ts:165-166:
\* what Scrobble throws, or the TypeError of reading 'accepted' from an
\* undefined '@attr'.
TryThrows(R) ==
  IF ScrobbleThrows(R) # None THEN ScrobbleThrows(R)
  ELSE IF R.body.scrobbles # None /\ R.body.scrobbles[1].attr = None
    THEN Some(<<"Cannot read properties of undefined (reading 'accepted')">>)
  ELSE None

\* index.ts:166, for a body on which the expression does not throw.
AcceptedOf(B) ==
  /\ B.scrobbles # None
  /\ LET A == B.scrobbles[1].attr[1].accepted
         N == IF A = None THEN None ELSE parseInt(A[1])
     IN  N # None /\ N[1] > 0

\* The branch of the loop body taken for a response, index.ts:164-190.
Classify(R) ==
  LET E == TryThrows(R)
  IN  IF E = None
        THEN (IF AcceptedOf(R.body) THEN "Accepted" ELSE "RejectedZero")
      ELSE IF Includes(E[1], <<"429">>) THEN "RateLimited"
      ELSE IF Includes(E[1], <<"Scrobbling limit hit">>)
              \/ Includes(E[1], <<"24h cooldown">>) THEN "DailyLimit"
      ELSE "Other"

\* A loop that sleeps one second after every attempt.
DelayOf_Uniform(Branch) == IF Branch = "DailyLimit" THEN 0 ELSE 1000

\* The sleep after each branch, index.ts:171,174,181,188 (0: no sleep).
DelayOf(Branch) ==
  CASE Branch = "Accepted"     -> 1000
    [] Branch = "RejectedZero" -> 2000
    [] Branch = "RateLimited"  -> 5000
    [] Branch = "DailyLimit"   -> 0
    [] Branch = "Other"        -> 2000

\* A loop in which a rejected response consumes an attempt as well.
Advances_RejectedToo(Branch) == Branch \in {"Accepted", "Other", "RejectedZero"}

\* A loop in which the rate-limited branch consumes an attempt as well.
Advances_RateLimitedToo(Branch) == Branch \in {"Accepted", "Other", "RateLimited"}

\* Attempt++ happens in the Accepted branch (index.ts:170) and in the final
\* else branch of the catch (index.ts:187).
Advances(Branch) == Branch \in {"Accepted", "Other"}

\* A loop that reports the daily limit but forgets to set Limited.
Limits_Never(Branch) == FALSE

\* A loop that sets Limited in the rate-limited branch instead.
Limits_WrongBranch(Branch) == Branch = "RateLimited"

\* Limited = true, index.ts:184.
Limits(Branch) == Branch = "DailyLimit"

\* A loop that reports success for every response Scrobble returned.
ReportOf_SuccessIfReturned(Branch) ==
  IF Branch \in {"Accepted", "RejectedZero"} THEN "success" ELSE "error"

\* Logger.Success in the Accepted branch, Logger.Error in every other one.
ReportOf(Branch) == IF Branch = "Accepted" THEN "success" ELSE "error"

\* ------------------------------------------------------------------ state
VARIABLES
  pc,          \* position of Main
  answered,    \* the keys present in the object prompts resolved to
  Artist,      \* the answers (meaningful when their key is in answered)
  Album,
  Repeat,
  reprompts,   \* validation messages shown by the number prompt (saturating)
  variants,    \* Variants of Fetch
  vi,          \* index of the candidate Fetch is at
  catalogReqs, \* the encoded albums requested from the catalog so far
  catResp,     \* the last catalog response, None while there is none
  Tracks,      \* the result of Fetch
  Limited,
  Attempt,
  inflight,    \* the network calls awaiting their response, oldest first
  calls,       \* submission calls made (saturating)
  resp,        \* the last submission response, None while there is none
  outcome,     \* the branch taken for the last submission response
  caught,      \* ErrorMsg of the catch for the last response, None if none
  delay,       \* the argument of the pending or last sleep, 0 if none
  elapsed,     \* the time slept since the last submission response
  lines,       \* the Logger lines printed since the last submission call
  batch,       \* the form of the submission call in flight, None otherwise
  I,           \* the loop counter of the for-loop variant
  seen,        \* the branches taken so far
  nAccepted,   \* times the Accepted branch was taken
  nOther,      \* times the final else branch of the catch was taken
  nSuccess,    \* Logger.Success lines
  nErrors,     \* Logger.Error lines (saturating)
  summary,     \* the summary lines printed: "done" or "limited"
  thrown       \* the error caught by the outer catch of Main, if any

vars ==
  << pc, answered, Artist, Album, Repeat, reprompts, variants, vi,
     catalogReqs, catResp, Tracks, Limited, Attempt, inflight, calls, resp, outcome,
     caught, delay, elapsed, lines, batch, I, seen, nAccepted, nOther,
     nSuccess, nErrors, summary, thrown >>

inputVars == << answered, Artist, Album, Repeat, reprompts >>

fetchVars == << variants, vi, catalogReqs, catResp, Tracks >>

loopVars ==
  << Limited, Attempt, calls, resp, outcome, caught, delay, elapsed, lines,
     batch, I, seen, nAccepted, nOther, nSuccess >>

Init ==
  /\ pc = "promptArtist"
  /\ answered = {}
  /\ Artist = ""
  /\ Album = <<>>
  /\ Repeat = 0
  /\ reprompts = 0
  /\ variants = <<>>
  /\ vi = 0
  /\ catalogReqs = <<>>
  /\ catResp = None
  /\ Tracks = <<>>
  /\ Limited = FALSE
  /\ Attempt = 0
  /\ inflight = <<>>
  /\ calls = 0
  /\ resp = None
  /\ outcome = "none"
  /\ caught = None
  /\ delay = 0
  /\ elapsed = 0
  /\ lines = <<>>
  /\ batch = None
  /\ I = 0
  /\ seen = {}
  /\ nAccepted = 0
  /\ nOther = 0
  /\ nSuccess = 0
  /\ nErrors = 0
  /\ summary = <<>>
  /\ thrown = None

\* An outer catch that swallows the error without reporting it.
Catch_Silent(Message) ==
  /\ thrown' = Some(Message)
  /\ nErrors' = nErrors
  /\ pc' = "exit"

\* The outer catch of Main, index.ts:195-197: one Logger.Error, then Main
\* returns.
Catch(Message) ==
  /\ thrown' = Some(Message)
  /\ nErrors' = Inc(nErrors, MaxErrors)
  /\ pc' = "exit"

\* ------------------------------------------------------- input collection
\* The text prompt for the artist is answered, index.ts:138.
PromptArtist ==
  /\ pc = "promptArtist"
  /\ \E v \in ArtistInputs :
       /\ Artist' = v
       /\ answered' = answered \cup {"Artist"}
  /\ pc' = "promptAlbum"
  /\ UNCHANGED << Album, Repeat, reprompts, fetchVars, loopVars, inflight,
                  nErrors, summary, thrown >>

\* The text prompt for the album is answered, index.ts:139.
PromptAlbum ==
  /\ pc = "promptAlbum"
  /\ \E v \in AlbumInputs :
       /\ Album' = v
       /\ answered' = answered \cup {"Album"}
  /\ pc' = "promptRepeat"
  /\ UNCHANGED << Artist, Repeat, reprompts, fetchVars, loopVars, inflight,
                  nErrors, summary, thrown >>

\* A number is submitted to the number prompt, index.ts:140-145: it is the
\* answer when validate accepts it, otherwise the validation message is
\* shown and the prompt stays open.
PromptRepeat ==
  /\ pc = "promptRepeat"
  /\ \E v \in RepeatInputs :
       IF Validate(v)
         THEN /\ Repeat' = v
              /\ answered' = answered \cup {"Repeat"}
              /\ pc' = "check"
              /\ UNCHANGED reprompts
         ELSE /\ reprompts' = Inc(reprompts, MaxReprompts)
              /\ UNCHANGED << Repeat, answered, pc >>
  /\ UNCHANGED << Artist, Album, fetchVars, loopVars, inflight, nErrors,
                  summary, thrown >>

\* The user cancels a prompt: prompts stops asking and resolves to the
\* answers given so far.
Cancel ==
  /\ pc \in {"promptArtist", "promptAlbum", "promptRepeat"}
  /\ pc' = "check"
  /\ UNCHANGED << inputVars, fetchVars, loopVars, inflight, nErrors, summary,
                  thrown >>

\* !Artist || !Album || !Repeat, index.ts:148.
MissingInput(Keys, ArtistValue, AlbumValue, RepeatValue) ==
  \/ "Artist" \notin Keys \/ ArtistValue = ""
  \/ "Album" \notin Keys \/ AlbumValue = <<>>
  \/ "Repeat" \notin Keys \/ RepeatValue = 0

\* index.ts:148-152.
CheckInputs ==
  /\ pc = "check"
  /\ IF MissingInput(answered, Artist, Album, Repeat)
       THEN Catch(<<"All inputs are required">>)
       ELSE /\ pc' = "fetch"
            /\ UNCHANGED << nErrors, thrown >>
  /\ UNCHANGED << inputVars, fetchVars, loopVars, inflight, summary >>

\* ----------------------------------------------------------------- Fetch
\* Fetch is entered, index.ts:64-70: the candidate list is built, or
\* encodeURIComponent throws and the error reaches the outer catch.
FetchBegin ==
  /\ pc = "fetch"
  /\ IF Malformed(Clean(Album))
       THEN /\ Catch(<<"URI malformed">>)
            /\ UNCHANGED << variants, vi >>
       ELSE /\ variants' = Variants(Album)
            /\ vi' = 1
            /\ pc' = "fetchSend"
            /\ UNCHANGED << nErrors, thrown >>
  /\ UNCHANGED << inputVars, catalogReqs, catResp, Tracks, loopVars, inflight,
                  summary >>

\* A Fetch that issues the request of a candidate without awaiting it and
\* goes on to the next candidate.
FetchSend_NoAwait ==
  /\ pc = "fetchSend"
  /\ IF vi <= Len(variants)
       THEN /\ catalogReqs' = Append(catalogReqs, variants[vi])
            /\ catResp' = None
            /\ inflight' = Append(inflight, "catalog")
            /\ vi' = vi + 1
            /\ pc' = "fetchSend"
            /\ UNCHANGED << nErrors, thrown >>
       ELSE /\ Catch(<<"Album or tracks not found">>)
            /\ UNCHANGED << catalogReqs, catResp, inflight, vi >>
  /\ UNCHANGED << inputVars, variants, Tracks, loopVars, summary >>

\* The head of the for loop, index.ts:72-76 and 90: the next candidate is
\* requested, or the candidates are exhausted and Fetch throws.
FetchSend ==
  /\ pc = "fetchSend"
  /\ IF vi <= Len(variants)
       THEN /\ catalogReqs' = Append(catalogReqs, variants[vi])
            /\ catResp' = None
            /\ inflight' = Append(inflight, "catalog")
            /\ pc' = "fetchRecv"
            /\ UNCHANGED << nErrors, thrown >>
       ELSE /\ Catch(<<"Album or tracks not found">>)
            /\ UNCHANGED << catalogReqs, catResp, inflight >>
  /\ UNCHANGED << inputVars, variants, vi, Tracks, loopVars, summary >>

\* The catalog exchange completes, index.ts:76-87: Fetch returns the
\* tracks or moves to the next candidate.
FetchRecv ==
  /\ pc = "fetchRecv"
  /\ inflight' = Complete(inflight, "catalog")
  /\ \E R \in CatalogResponses :
       /\ catResp' = Some(R)
       /\ IF FetchAccepts(R)
            THEN /\ Tracks' = Normalize(R)
                 /\ pc' = "found"
                 /\ UNCHANGED vi
            ELSE /\ vi' = vi + 1
                 /\ pc' = "fetchSend"
                 /\ UNCHANGED Tracks
  /\ UNCHANGED << inputVars, variants, catalogReqs, loopVars, nErrors,
                  summary, thrown >>

\* index.ts:155-161: the tracklist is printed and the loop variables are
\* initialised.
PrintTracks ==
  /\ pc = "found"
  /\ Limited' = FALSE
  /\ Attempt' = 0
  /\ pc' = "loop"
  /\ UNCHANGED << inputVars, fetchVars, inflight, calls, resp, outcome, caught,
                  delay, elapsed, lines, batch, I, seen, nAccepted, nOther, nSuccess,
                  nErrors, summary, thrown >>

\* ------------------------------------------------------ submission loop
\* A loop condition that does not look at Limited.
LoopCondition_IgnoresLimited(AttemptValue, RepeatValue, LimitedValue) ==
  AttemptValue < RepeatValue

\* A loop condition that runs one iteration too many.
LoopCondition_OffByOne(AttemptValue, RepeatValue, LimitedValue) ==
  AttemptValue <= RepeatValue /\ ~LimitedValue

\* The loop condition, index.ts:163.
LoopCondition(AttemptValue, RepeatValue, LimitedValue) ==
  AttemptValue < RepeatValue /\ ~LimitedValue

\* A summary that does not look at Limited.
SummaryOf_AlwaysDone(LimitedValue) == "done"

\* The summary line, index.ts:193.
SummaryOf(LimitedValue) == IF LimitedValue THEN "limited" ELSE "done"

\* The loop condition is evaluated, index.ts:163 and 193: the body is
\* entered, or the summary line is printed and Main returns.
LoopTest ==
  /\ pc = "loop"
  /\ IF LoopCondition(Attempt, Repeat, Limited)
       THEN /\ pc' = "scrobble"
            /\ UNCHANGED summary
       ELSE /\ summary' = Append(summary, SummaryOf(Limited))
            /\ pc' = "exit"
  /\ UNCHANGED << inputVars, fetchVars, loopVars, inflight, nErrors, thrown >>

\* The values Date.now() returns, in milliseconds.
ClockValues == {1999, 2000}

\* Math.floor(Date.now() / 1000), index.ts:94.
NowOf(Ms) == Ms \div 1000

\* A batch in which every track carries the time of the call.
Timestamp_Constant(Now, Index) == Now

\* The timestamp of the track at Index, index.ts:101.
Timestamp(Now, Index) == Now + Index

\* A batch whose field indices start at one.
FieldIndex_OneBased(Index) == Index + 1

\* The field index of the track at position Index of Tracks (forEach passes
\* the zero-based array index), index.ts:97-98.
FieldIndex(Index) == Index

\* The form Scrobble builds, index.ts:94-102: for the track at zero-based
\* position Index the fields artist[Index], track[Index], album[Index] and
\* timestamp[Index].
BuildBody(ArtistValue, AlbumValue, TrackList, Now) ==
  [now |-> Now,
   fields |-> [p \in 1..Len(TrackList) |->
                 [index |-> FieldIndex(p - 1),
                  artist |-> ArtistValue,
                  track |-> TrackList[p],
                  album |-> AlbumValue,
                  timestamp |-> Timestamp(Now, p - 1)]]]

\* Scrobble builds the batch and posts it, index.ts:94-116.
ScrobbleSend ==
  /\ pc = "scrobble"
  /\ calls' = Inc(calls, MaxCalls)
  /\ inflight' = Append(inflight, "submit")
  /\ resp' = None
  /\ lines' = <<>>
  /\ \E Ms \in ClockValues :
       batch' = Some(BuildBody(Artist, Album, Tracks, NowOf(Ms)))
  /\ pc' = "scrobbleRecv"
  /\ UNCHANGED << inputVars, fetchVars, Limited, Attempt, outcome, caught,
                  delay, elapsed, I, seen, nAccepted, nOther, nSuccess, nErrors,
                  summary, thrown >>

\* The submission exchange completes, index.ts:118-128 and 166-189: the
\* response is classified, reported, and Attempt and Limited are updated.
ScrobbleRecv ==
  /\ pc = "scrobbleRecv"
  /\ inflight' = Complete(inflight, "submit")
  /\ \E R \in SubmitResponses :
       LET Branch == Classify(R)
       IN  /\ resp' = Some(R)
           /\ outcome' = Branch
           /\ caught' = TryThrows(R)
           /\ seen' = seen \cup {Branch}
           /\ Attempt' = IF Advances(Branch) THEN Attempt + 1 ELSE Attempt
           /\ Limited' = (Limited \/ Limits(Branch))
           /\ nAccepted' = IF Branch = "Accepted" THEN nAccepted + 1 ELSE nAccepted
           /\ nOther' = IF Branch = "Other" THEN nOther + 1 ELSE nOther
           /\ nSuccess' = IF ReportOf(Branch) = "success" THEN nSuccess + 1 ELSE nSuccess
           /\ nErrors' = IF ReportOf(Branch) = "error"
                           THEN Inc(nErrors, MaxErrors) ELSE nErrors
           /\ lines' = Append(lines, ReportOf(Branch))
           /\ delay' = DelayOf(Branch)
           /\ pc' = IF DelayOf(Branch) > 0 THEN "sleep" ELSE "loop"
  /\ elapsed' = 0
  /\ batch' = None
  /\ UNCHANGED << inputVars, fetchVars, calls, I, summary, thrown >>

\* The timer of sleep fires, index.ts:131-133.
Sleep ==
  /\ pc = "sleep"
  /\ elapsed' = delay
  /\ pc' = "loop"
  /\ UNCHANGED << inputVars, fetchVars, Limited, Attempt, calls, resp, outcome,
                  caught, delay, lines, batch, I, seen, nAccepted, nOther, nSuccess,
                  inflight, nErrors, summary, thrown >>

Next ==
  \/ PromptArtist
  \/ PromptAlbum
  \/ PromptRepeat
  \/ Cancel
  \/ CheckInputs
  \/ FetchBegin
  \/ FetchSend
  \/ FetchRecv
  \/ PrintTracks
  \/ LoopTest
  \/ ScrobbleSend
  \/ ScrobbleRecv
  \/ Sleep

Spec == Init /\ [][Next]_vars

\* Every prompt is eventually answered, every exchange completes and every
\* timer fires.
FairSpec == Spec /\ WF_vars(Next)

TypeOK ==
  /\ pc \in {"promptArtist", "promptAlbum", "promptRepeat", "check", "fetch",
             "fetchSend", "fetchRecv", "found", "loop", "for", "scrobble",
             "scrobbleRecv", "sleep", "exit"}
  /\ answered \subseteq {"Artist", "Album", "Repeat"}
  /\ Attempt \in 0..MaxRepeat
  /\ I \in 0..MaxRepeat
  /\ calls \in 0..MaxCalls
  /\ \A i \in 1..Len(inflight) : inflight[i] \in {"catalog", "submit"}

\* ------------------------------------------- the for-loop variant of Main
\* The earlier revision of the program in src/unnamed/part_000 differs from
\* index.ts in the submission loop only: a for loop over I without sleeps
\* in which a '429' failure sets Limited as the daily limit does.

\* The branch of the loop body taken for a response, part_000:204-224.
ClassifyFor(R) ==
  LET E == TryThrows(R)
  IN  IF E = None
        THEN (IF AcceptedOf(R.body) THEN "Accepted" ELSE "RejectedZero")
      ELSE IF Includes(E[1], <<"429">>) THEN "RateLimited"
      ELSE IF Includes(E[1], <<"Scrobbling limit hit">>) THEN "DailyLimit"
      ELSE "Other"

\* A variant in which only the daily limit stops the loop.
LimitsFor_DailyOnly(Branch) == Branch = "DailyLimit"

\* Limited = true, part_000:216-220.
LimitsFor(Branch) == Branch \in {"RateLimited", "DailyLimit"}

\* The condition of the for loop, part_000:203.
ForCondition(IValue, RepeatValue, LimitedValue) ==
  IValue < RepeatValue /\ ~LimitedValue

\* part_000:196-203: the tracklist is printed, Limited and I are
\* initialised.
PrintTracksFor ==
  /\ pc = "found"
  /\ Limited' = FALSE
  /\ I' = 0
  /\ pc' = "for"
  /\ UNCHANGED << inputVars, fetchVars, inflight, Attempt, calls, resp, outcome,
                  caught, delay, elapsed, lines, batch, seen, nAccepted,
                  nOther, nSuccess, nErrors, summary, thrown >>

\* The condition of the for loop is evaluated, part_000:203 and 227.
ForTest ==
  /\ pc = "for"
  /\ IF ForCondition(I, Repeat, Limited)
       THEN /\ pc' = "scrobble"
            /\ UNCHANGED summary
       ELSE /\ summary' = Append(summary, SummaryOf(Limited))
            /\ pc' = "exit"
  /\ UNCHANGED << inputVars, fetchVars, loopVars, inflight, nErrors, thrown >>

\* The submission exchange completes, part_000:163-173 and 206-225: the
\* response is classified and reported, Limited is updated and I++ ends
\* the iteration.
ScrobbleRecvFor ==
  /\ pc = "scrobbleRecv"
  /\ inflight' = Complete(inflight, "submit")
  /\ \E R \in SubmitResponses :
       LET Branch == ClassifyFor(R)
       IN  /\ resp' = Some(R)
           /\ outcome' = Branch
           /\ caught' = TryThrows(R)
           /\ seen' = seen \cup {Branch}
           /\ Limited' = (Limited \/ LimitsFor(Branch))
           /\ nAccepted' = IF Branch = "Accepted" THEN nAccepted + 1 ELSE nAccepted
           /\ nOther' = IF Branch = "Other" THEN nOther + 1 ELSE nOther
           /\ nSuccess' = IF ReportOf(Branch) = "success" THEN nSuccess + 1 ELSE nSuccess
           /\ nErrors' = IF ReportOf(Branch) = "error"
                           THEN Inc(nErrors, MaxErrors) ELSE nErrors
           /\ lines' = Append(lines, ReportOf(Branch))
  /\ I' = I + 1
  /\ batch' = None
  /\ pc' = "for"
  /\ UNCHANGED << inputVars, fetchVars, Attempt, calls, delay, elapsed, summary,
                  thrown >>

NextFor ==
  \/ PromptArtist
  \/ PromptAlbum
  \/ PromptRepeat
  \/ Cancel
  \/ CheckInputs
  \/ FetchBegin
  \/ FetchSend
  \/ FetchRecv
  \/ PrintTracksFor
  \/ ForTest
  \/ ScrobbleSend
  \/ ScrobbleRecvFor

SpecFor == Init /\ [][NextFor]_vars

\* ------------------------------------------------------------ properties
\* The states of the Retry Controller.
InLoop == pc \in {"loop", "scrobble", "scrobbleRecv", "sleep"}

LoopEnded == pc = "exit" /\ summary # <<>>

Running == InLoop /\ ~Limited

StoppedByLimit == Limited

Done == LoopEnded /\ ~Limited

\* The step on which the submission response R is received.
Received(R) == pc = "scrobbleRecv" /\ resp' = Some(R)

\* A 2xx body whose scrobbles['@attr'].accepted parses to a positive number.
PositiveAccepted(R) ==
  /\ Ok(R)
  /\ R.json = "ok"
  /\ R.body.scrobbles # None
  /\ R.body.scrobbles[1].attr # None
  /\ R.body.scrobbles[1].attr[1].accepted # None
  /\ parseInt(R.body.scrobbles[1].attr[1].accepted[1]) # None
  /\ parseInt(R.body.scrobbles[1].attr[1].accepted[1])[1] > 0

\* The success body of the submission service: a positive accepted count
\* and no error member.
SuccessBody(R) == PositiveAccepted(R) /\ R.body.error = None

C2_RateLimitedKeepsSlot ==
  /\ [][\A R \in SubmitResponses :
          (Received(R) /\ R.net = "ok" /\ R.status = 429) =>
            (Attempt' = Attempt /\ Running')]_vars
  /\ []((LoopEnded /\ seen \subseteq {"Accepted", "RateLimited"}) =>
          nAccepted = Repeat)

C2_Witness ==
  /\ pc = "exit"
  /\ summary = <<"done">>
  /\ seen = {"Accepted", "RateLimited"}
  /\ resp # None
  /\ calls > Repeat
  /\ nAccepted = Repeat

\* C3: a 2xx body with error 29 and a message containing 'Rate Limit
\* Exceeded' stops the loop at once: Limited is set, Attempt is unchanged,
\* no sleep is taken, and from then on the only step is the one that prints
\* the daily-limit summary, so no submission call follows.
C3_DailyLimitHalts ==
  /\ [][\A R \in SubmitResponses :
          (Received(R) /\ Ok(R) /\ R.json = "ok" /\ IsDailyLimitBody(R.body)) =>
            (Limited' /\ Attempt' = Attempt /\ delay' = 0 /\ pc' = "loop")]_vars
  /\ [][Limited =>
          (pc' = "exit" /\ summary' = <<"limited">> /\ calls' = calls
             /\ Attempt' = Attempt /\ inflight' = <<>>)]_vars

C3_Witness ==
  /\ pc = "exit"
  /\ summary = <<"limited">>
  /\ Limited
  /\ calls = 1
  /\ Attempt = 0
  /\ Repeat >= 2

\* A 2xx body that decodes, is not the daily-limit body and has no positive
\* accepted count.
NoPositiveAccepted(R) ==
  /\ Ok(R)
  /\ R.json = "ok"
  /\ ~IsDailyLimitBody(R.body)
  /\ ~PositiveAccepted(R)

\* C4: every 2xx response whose accepted count is absent or not positive is
\* handled as RejectedZero: Attempt is not incremented, Limited stays false
\* and the controller stays Running for a retry of the same slot.
C4_RejectedZeroNotAnError ==
  [][\A R \in SubmitResponses :
       (Received(R) /\ NoPositiveAccepted(R)) =>
         (outcome' = "RejectedZero" /\ Attempt' = Attempt /\ Running')]_vars

\* A failure thrown by Scrobble that is not DailyLimitReached.
ThrownFailure(R) == ScrobbleThrows(R) # None /\ ScrobbleThrows(R) # Some(LimitHitMessage)

IsHttp429(R) == R.net = "ok" /\ R.status = 429

\* C5: a thrown failure is handled as rate-limited exactly when it is an
\* HTTP error with status 429; every other thrown failure that is not
\* DailyLimitReached increments Attempt by one and leaves the controller
\* Running.
C5_Only429IsRateLimited ==
  [][\A R \in SubmitResponses :
       (Received(R) /\ ThrownFailure(R)) =>
         IF IsHttp429(R)
           THEN outcome' = "RateLimited" /\ Attempt' = Attempt
           ELSE outcome' = "Other" /\ Attempt' = Attempt + 1
                  /\ Running']_vars

\* C6 as stated: once the loop has started it always ends.
C6_AlwaysTerminates == InLoop ~> LoopEnded

\* The branches that neither increment Attempt nor set Limited.
NonAdvancing == {"RejectedZero", "RateLimited"}

\* C6 amended: once the loop has started it ends, provided that from some
\* point on no attempt is handled by the RejectedZero or the rate-limited
\* branch.
C6_TerminatesUnlessRetriedForever ==
  (<>[](outcome \notin NonAdvancing)) => (InLoop ~> LoopEnded)

C6_Witness ==
  /\ LoopEnded
  /\ NonAdvancing \subseteq seen
  /\ outcome \notin NonAdvancing
  /\ Repeat >= 2

FetchReturned == pc \in {"found", "loop", "scrobble", "scrobbleRecv", "sleep"} \/ LoopEnded

NotFoundMessage == <<"Album or tracks not found">>

\* C7: Fetch never returns an empty tracklist, and once a catalog request
\* was made its only failure is 'Album or tracks not found'.
C7_NeverEmpty ==
  /\ FetchReturned => Len(Tracks) >= 1
  /\ (thrown # None /\ catalogReqs # <<>>) => thrown = Some(NotFoundMessage)

\* A catalog response the lookup contract accepts: 2xx, decodable, and a
\* track member that normalizes to a non-empty list.
ContractAccepts(R) ==
  /\ Ok(R)
  /\ R.json = "ok"
  /\ R.kind \in {"object", "array"}
  /\ (R.kind = "array" => R.items # <<>>)

\* C8: the requests are the candidates in their fixed order; a response the
\* contract accepts ends the lookup with no further request; any other
\* response only moves to the next candidate.
C8_FirstAcceptedCandidate ==
  /\ [](/\ Len(catalogReqs) <= 4
        /\ (catalogReqs # <<>> =>
              catalogReqs = SubSeq(Variants(Album), 1, Len(catalogReqs))))
  /\ [][\A R \in CatalogResponses :
          (pc = "fetchRecv" /\ catResp' = Some(R)) =>
            IF ContractAccepts(R)
              THEN pc' = "found" /\ Tracks' = R.items
              ELSE pc' = "fetchSend" /\ vi' = vi + 1 /\ Tracks' = Tracks]_vars
  /\ [][FetchReturned => catalogReqs' = catalogReqs]_vars

\* C9: when all four candidates have failed Fetch throws 'Album or tracks
\* not found'; the error is reported by exactly one Logger.Error line, no
\* submission call is made and no summary line is printed.
C9_NotFoundReportedOnce ==
  /\ [][(pc = "fetchSend" /\ Len(catalogReqs) = 4) =>
          (thrown' = Some(NotFoundMessage) /\ pc' = "exit")]_vars
  /\ [](thrown = Some(NotFoundMessage) =>
          (/\ pc = "exit"
           /\ Len(catalogReqs) = 4
           /\ nErrors = 1
           /\ nSuccess = 0
           /\ calls = 0
           /\ inflight = <<>>
           /\ summary = <<>>))

C9_Witness ==
  /\ pc = "exit"
  /\ thrown = Some(NotFoundMessage)
  /\ Len(catalogReqs) = 4
  /\ nErrors = 1

\* The input the orchestrator must reject.
BadInput ==
  \/ "Repeat" \notin answered \/ Repeat <= 0
  \/ "Artist" \notin answered \/ Artist = ""
  \/ "Album" \notin answered \/ Album = <<>>

\* C10: while the repeat count is absent or not positive, or the artist or
\* the album is absent or empty, no catalog request and no submission call
\* has been made.
C10_NoNetworkOnBadInput ==
  BadInput => (catalogReqs = <<>> /\ calls = 0 /\ inflight = <<>> /\ pc # "fetch")

C10_Witness ==
  /\ pc = "exit"
  /\ thrown = Some(<<"All inputs are required">>)
  /\ answered = {"Artist", "Album", "Repeat"}
  /\ Artist # ""
  /\ Album = <<>>
  /\ reprompts > 0

\* A step that issues a network call.
IssuesCall == Len(inflight') > Len(inflight)

\* C11: at most one network call is in flight and Main is suspended on it;
\* a call is issued only when none is in flight; a submission call is
\* issued only after Fetch has returned its tracks, and a later one only
\* after the previous response has arrived and the sleep of its branch has
\* elapsed.
C11_OneCallInFlight ==
  /\ [](Len(inflight) <= 1)
  /\ [](inflight = <<"catalog">> <=> pc = "fetchRecv")
  /\ [](inflight = <<"submit">> <=> pc = "scrobbleRecv")
  /\ [][IssuesCall => (inflight = <<>> /\ Len(inflight') = 1)]_vars
  /\ [][(IssuesCall /\ inflight' = <<"submit">>) =>
          (/\ catResp # None
           /\ FetchAccepts(catResp[1])
           /\ Tracks = Normalize(catResp[1])
           /\ (calls > 0 => (resp # None /\ delay > 0 /\ elapsed = delay)))]_vars

C11_Witness ==
  /\ pc = "scrobbleRecv"
  /\ inflight = <<"submit">>
  /\ calls >= 2
  /\ Len(catalogReqs) >= 2
  /\ elapsed = 5000

\* C12: in the batch of a submission call the track with field index i
\* carries the timestamp now + i, now being the one value captured for the
\* call, so the timestamps increase strictly with the position and are
\* pairwise distinct.
C12_TimestampsIncrease ==
  batch # None =>
    LET F == batch[1].fields
        Now == batch[1].now
    IN  /\ Now \in {NowOf(Ms) : Ms \in ClockValues}
        /\ \A p \in 1..Len(F) :
             F[p].index = p - 1 /\ F[p].timestamp = Now + F[p].index
        /\ \A p, q \in 1..Len(F) :
             (p < q => F[p].timestamp < F[q].timestamp)
               /\ (p # q => F[p].timestamp # F[q].timestamp)

C12_Witness ==
  /\ batch # None
  /\ Len(batch[1].fields) = 2
  /\ batch[1].now = 2
  /\ batch[1].fields[2].timestamp = 3

\* C13: no summary line is printed while the loop runs; when it has ended
\* exactly one is printed; it is the daily-limit line exactly when Limited
\* is set, which is exactly when the DailyLimit branch was taken; otherwise
\* it is 'Scrobbling done' and Attempt >= Repeat.
C13_OneSummaryLine ==
  /\ Len(summary) <= 1
  /\ InLoop => summary = <<>>
  /\ (pc = "exit" /\ thrown = None) => Len(summary) = 1
  /\ summary # <<>> =>
       /\ pc = "exit"
       /\ summary[1] = "limited" <=> Limited
       /\ Limited <=> "DailyLimit" \in seen
       /\ summary[1] # "limited" => (summary[1] = "done" /\ Attempt >= Repeat)

C13_Witness ==
  /\ summary = <<"limited">>
  /\ nAccepted = 1
  /\ Attempt < Repeat
  /\ "RateLimited" \in seen

\* C14: the batch of every submission call holds, for each track of the
\* accepted catalog response and in its order, the track name under the
\* field index of its position together with the artist and the album as
\* entered; once Fetch has returned, the tracklist and the inputs never
\* change and no further catalog request is made.
C14_SameTracklistEveryAttempt ==
  /\ [](batch # None =>
          LET F == batch[1].fields
              Found == catResp[1].items
          IN  /\ Len(F) = Len(Found)
              /\ \A p \in 1..Len(F) :
                   /\ F[p].index = p - 1
                   /\ F[p].track = Found[p]
                   /\ F[p].artist = Artist
                   /\ F[p].album = Album)
  /\ [][FetchReturned =>
          (/\ Tracks' = Tracks
           /\ catResp' = catResp
           /\ catalogReqs' = catalogReqs
           /\ Artist' = Artist
           /\ Album' = Album)]_vars

C14_Witness ==
  /\ batch # None
  /\ calls >= 2
  /\ Len(batch[1].fields) = 2
  /\ batch[1].fields[2].track = "t2"
  /\ Album = <<"fi_lig", "/">>

\* C15: Scrobble throws the daily-limit error exactly when the response is
\* 2xx and its body has error 29 and a message containing 'Rate Limit
\* Exceeded'; a 2xx body with another error code, or with error 29 and
\* another or no message, is returned and handled as RejectedZero; a
\* non-2xx response throws the HTTP error built from status and status
\* text whatever its body.
C15_DailyLimitExactly ==
  resp # None =>
    LET R == resp[1]
        Decoded == Ok(R) /\ R.json = "ok"
        Marked == /\ R.body.error = Some(29)
                  /\ R.body.message # None
                  /\ \E i \in 1..Len(R.body.message[1]) :
                       R.body.message[1][i] = "Rate Limit Exceeded"
    IN  /\ caught = Some(LimitHitMessage) <=> (Decoded /\ Marked)
        /\ outcome = "DailyLimit" <=> (Decoded /\ Marked)
        /\ (Decoded /\ R.body.error # None /\ ~Marked) =>
             (caught = None /\ outcome = "RejectedZero")
        /\ (R.net = "ok" /\ ~Ok(R)) =>
             (/\ caught = Some(<<"Scrobble request failed: ", ToString(R.status), " ">>
                                 \o R.statusText)
              /\ outcome \in {"RateLimited", "Other"})

C15_Witness ==
  /\ resp # None
  /\ Ok(resp[1])
  /\ resp[1].body.error = Some(29)
  /\ resp[1].body.message = Some(OtherMessage)
  /\ outcome = "RejectedZero"
  /\ "DailyLimit" \notin seen

\* The delay policy of the Retry Controller, per classification.
PolicyDelay ==
  [Accepted |-> 1000, RejectedZero |-> 2000, RateLimited |-> 5000,
   Other |-> 2000, DailyLimit |-> 0]

\* C16: the sleep after an attempt is the one of the branch the attempt
\* was classified into (1000 Accepted, 2000 RejectedZero, 5000 rate
\* limited, 2000 other error, none for the daily limit); in particular a
\* success body is followed by 1000 and a status 429 by 5000; and a later
\* submission call is issued only after exactly that sleep has elapsed.
C16_DelayByClassification ==
  /\ [](resp # None =>
          (/\ delay = PolicyDelay[outcome]
           /\ SuccessBody(resp[1]) => delay = 1000
           /\ IsHttp429(resp[1]) => delay = 5000
           /\ elapsed \in {0, delay}
           /\ pc = "sleep" <=> (delay > 0 /\ elapsed = 0)))
  /\ [](outcome = "DailyLimit" => (delay = 0 /\ elapsed = 0 /\ pc # "sleep"))
  /\ [][(IssuesCall /\ inflight' = <<"submit">> /\ calls > 0) =>
          (elapsed = PolicyDelay[outcome] /\ elapsed > 0)]_vars

C16_Witness ==
  /\ pc = "scrobbleRecv"
  /\ calls >= 2
  /\ outcome = "RejectedZero"
  /\ elapsed = 2000

\* C17: while a submission call is in flight nothing has been reported for
\* it; from its response until the next call or the summary exactly one
\* line has been reported for it: a success line when it was classified
\* Accepted (a positive accepted count on a body that is not the daily
\* limit body), an error line in every other case.
C17_OneReportPerAttempt ==
  /\ pc = "scrobbleRecv" => lines = <<>>
  /\ resp # None =>
       /\ Len(lines) = 1
       /\ lines[1] \in {"success", "error"}
       /\ lines[1] = "success" <=> outcome = "Accepted"
       /\ lines[1] = "success" <=>
            (PositiveAccepted(resp[1]) /\ ~IsDailyLimitBody(resp[1].body))
       /\ outcome \in {"RejectedZero", "RateLimited", "DailyLimit", "Other"} =>
            lines[1] = "error"
  /\ (LoopEnded /\ calls > 0) => (resp # None /\ Len(lines) = 1)
  /\ nSuccess = nAccepted

C17_Witness ==
  /\ resp # None
  /\ lines = <<"error">>
  /\ outcome = "RejectedZero"
  /\ nSuccess >= 1
  /\ pc = "loop"

\* C18: in the loop and after it 0 <= Attempt <= Repeat; Attempt never
\* decreases and changes only when a submission response is handled, by at
\* most one; a submission call is issued only while Attempt < Repeat and
\* Limited is false.
C18_AttemptBounds ==
  /\ []((InLoop \/ LoopEnded) => (0 <= Attempt /\ Attempt <= Repeat))
  /\ [][InLoop =>
          (/\ Attempt' >= Attempt
           /\ Attempt' <= Attempt + 1
           /\ Attempt' # Attempt => pc = "scrobbleRecv")]_vars
  /\ [][(IssuesCall /\ inflight' = <<"submit">>) =>
          (Attempt < Repeat /\ ~Limited)]_vars

C18_Witness ==
  /\ pc = "scrobbleRecv"
  /\ Repeat >= 2
  /\ Attempt = Repeat - 1
  /\ calls > Repeat

\* C19: Attempt is the number of attempts handled by the Accepted branch
\* plus the number handled by the final else branch of the catch; the
\* RejectedZero, rate-limited and daily-limit branches leave it unchanged;
\* so a run that ends in Done with fewer than Repeat Accepted outcomes has
\* had an error handled by the final else branch.
C19_AttemptCountsAcceptedAndOther ==
  /\ []((InLoop \/ LoopEnded) => Attempt = nAccepted + nOther)
  /\ [][pc = "scrobbleRecv" =>
          IF outcome' \in {"RejectedZero", "RateLimited", "DailyLimit"}
            THEN Attempt' = Attempt
            ELSE Attempt' = Attempt + 1]_vars
  /\ []((Done /\ nAccepted < Repeat) => (nOther > 0 /\ "Other" \in seen))

C19_Witness ==
  /\ Done
  /\ nAccepted = 1
  /\ nOther = 1
  /\ Repeat = 2
  /\ {"RejectedZero", "RateLimited"} \subseteq seen

InFor == pc \in {"for", "scrobble", "scrobbleRecv"}

\* C20: in the for-loop variant every response ends one iteration (I grows
\* by one, whatever the outcome), so the submission calls made are I plus
\* the one in flight and never exceed Repeat; a status 429 sets Limited as
\* the daily-limit body does, and once Limited is set the only step is the
\* one that prints the limited summary: the slot is not retried.
C20_ForLoopConsumesEveryOutcome ==
  /\ []((InFor \/ LoopEnded) =>
          (/\ I <= Repeat
           /\ calls <= Repeat
           /\ calls = I + (IF pc = "scrobbleRecv" THEN 1 ELSE 0)))
  /\ [][pc = "scrobbleRecv" => I' = I + 1]_vars
  /\ [][\A R \in SubmitResponses :
          (Received(R) /\
             (IsHttp429(R) \/ (Ok(R) /\ R.json = "ok" /\ IsDailyLimitBody(R.body))))
            => Limited']_vars
  /\ [][Limited =>
          (pc' = "exit" /\ summary' = <<"limited">> /\ calls' = calls
             /\ inflight' = <<>>)]_vars

C20_Witness ==
  /\ pc = "exit"
  /\ summary = <<"limited">>
  /\ resp # None
  /\ IsHttp429(resp[1])
  /\ I = 1
  /\ calls = 1
  /\ Repeat >= 2

====
